---- MODULE Spec2Model ----
(***************************************************************************)
(* The timed invocation harness of policyengine-profiler: profile_step and *)
(* the "Run Profile" block of app.py, and profile_reform_overhead of       *)
(* example_profile.py.  The simulation library (Simulation(...), the       *)
(* wrapped operation) and the clock (time.time()) are the environment.     *)
(*                                                                         *)
(* Times are whole clock ticks (one tick is one second).  A quotient of    *)
(* two times is an exact fraction <<numerator, denominator>> in lowest     *)
(* terms with a positive denominator.                                      *)
(***************************************************************************)
EXTENDS Integers, Sequences, FiniteSets, TLC

\* time.time() returns a reading in 0..MaxClock
MaxClock == 6
\* timed invocations with a profiler (cProfile.Profile objects) per process
MaxInvocations == 3
\* functions an operation records in a full run of the scripts
MaxCalls == 1
\* functions a profiler has recorded when its statistics are printed
MaxFuncs == 25
\* ps.print_stats(20) / stats.print_stats(20)
TopN == 20

Steps == {"Baseline", "Reform"}
\* what the wrapped operation may return: None, 0, an empty sequence, a handle
Values == {"None", "zero", "empty", "handle"}
\* what the wrapped operation may raise
Errors == {"ConstructionError", "UnknownVariableError"}
Clock == 0..MaxClock

VARIABLES
    prog,             \* which script runs: "app" or "example"
    pc,               \* position of the script
    step,             \* label of the timed invocation under way
    inv,              \* number of cProfile.Profile objects created so far
    enabled,          \* the Profile objects that are enabled (by number)
    start,            \* local start / t0
    elapsed,          \* local elapsed
    result,           \* local result
    stats,            \* per step, cumulative time of each recorded function
    returned,         \* per step, the value the operation returned
    raised,           \* the error the operation raised
    error,            \* the uncaught exception that ended the script run
    baseline_result,  \* baseline_result / (baseline_time, sim_baseline)
    reform_result,    \* reform_result / (reform_time, sim_reform)
    metrics,          \* overhead, overhead_pct, slowdown factor as displayed
    trace,            \* per step, the events of the timed invocation in order
    pressed,          \* the button whose press started this script run
    baseline_calc,    \* baseline_calc of Step 3
    reform_calc       \* reform_calc of Step 3

vars == <<prog, pc, step, inv, enabled, start, elapsed, result, stats, returned,
          raised, error, baseline_result, reform_result, metrics, trace,
          pressed, baseline_calc, reform_calc>>

\* the state of Step 3 and of the buttons
step3 == <<pressed, baseline_calc, reform_calc>>

----------------------------------------------------------------------------
\* Arithmetic of the comparison

Abs(x) == IF x < 0 THEN -x ELSE x

RECURSIVE GCD(_, _)
GCD(a, b) == IF b = 0 THEN a ELSE GCD(b, a % b)

\* the fraction n/d (d # 0) in lowest terms, denominator positive
Rat(n, d) ==
    LET g == GCD(Abs(n), Abs(d))
        s == IF d < 0 THEN -1 ELSE 1
    IN  <<(s * n) \div g, (s * d) \div g>>

\* a / b of two times, b # 0
TrueDiv(a, b) == Rat(a, b)

\* q - k and q * k for a fraction q and an integer k
RatSub(q, k) == Rat(q[1] - k * q[2], q[2])
RatMul(q, k) == Rat(q[1] * k, q[2])

NoMetrics == [computed |-> FALSE, overhead |-> 0,
              overhead_pct |-> <<0, 1>>, ratio |-> <<0, 1>>]

\* variant: the percentage of the ratio itself, without the "- 1"
DeriveNoMinusOne(b, r) ==
    [computed |-> TRUE, overhead |-> r - b,
     overhead_pct |-> RatMul(TrueDiv(r, b), 100), ratio |-> TrueDiv(r, b)]

\* overhead, overhead_pct and the slowdown factor of reform time r over
\* baseline time b # 0
Derive(b, r) ==
    [computed |-> TRUE,
     overhead |-> r - b,
     overhead_pct |-> RatMul(RatSub(TrueDiv(r, b), 1), 100),
     ratio |-> TrueDiv(r, b)]

----------------------------------------------------------------------------
\* Statistics of a profiler: sort_stats('cumulative') and print_stats(20)

\* n recorded functions in discovery order; function i has cumulative time
\* ((i * p[1]) % p[2]) + 1
Samples(n, p) == [i \in 1..n |-> ((i * p[1]) % p[2]) + 1]

\* distinct times out of order, distinct ascending times, times with ties
Patterns == {<<7, 31>>, <<1, 31>>, <<1, 3>>}
RunPattern == <<1, 3>>

\* f put into s (sorted by cumulative time ct, descending) behind every entry
\* whose time is not smaller: the sort is stable
RECURSIVE Insert(_, _, _)
Insert(f, s, ct) ==
    IF s = <<>> THEN <<f>>
    ELSE IF ct[Head(s)] >= ct[f] THEN <<Head(s)>> \o Insert(f, Tail(s), ct)
    ELSE <<f>> \o s

RECURSIVE SortPrefix(_, _)
SortPrefix(ct, n) ==
    IF n = 0 THEN <<>> ELSE Insert(n, SortPrefix(ct, n - 1), ct)

\* the recorded functions by cumulative time, descending
SortStats(ct) == SortPrefix(ct, Len(ct))

\* variant: one entry too many
PrintStatsOneMore(sorted, n) ==
    SubSeq(sorted, 1, IF Len(sorted) < n + 1 THEN Len(sorted) ELSE n + 1)

\* the first n entries
PrintStats(sorted, n) ==
    SubSeq(sorted, 1, IF Len(sorted) < n THEN Len(sorted) ELSE n)

\* the entries of the profile text of a profiler with statistics ct
ProfileText(ct) == PrintStats(SortStats(ct), TopN)

----------------------------------------------------------------------------
\* Report records

NoReport == [name |-> "", time |-> 0, result |-> "unset", profile |-> <<>>,
             made |-> FALSE]

\* variant: a falsy result is replaced by None
ReportOrNone(name, time, res, profile) ==
    [name |-> name, time |-> time,
     result |-> IF res \in {"None", "zero", "empty"} THEN "None" ELSE res,
     profile |-> profile, made |-> TRUE]

\* the dictionary profile_step returns
Report(name, time, res, profile) ==
    [name |-> name, time |-> time, result |-> res, profile |-> profile,
     made |-> TRUE]

NoTrace == [s \in Steps |-> <<>>]
NoStats == [s \in Steps |-> <<>>]
NoReturn == [s \in Steps |-> "unset"]

Log(ev) == [trace EXCEPT ![step] = Append(@, ev)]

----------------------------------------------------------------------------
\* The steps of a timed invocation, shared by profile_step and the example

\* pr = cProfile.Profile(); pr.enable()
EnableAt(here, next) ==
    /\ pc = here
    /\ inv' = inv + 1
    /\ enabled' = enabled \cup {inv + 1}
    /\ trace' = Log("enable")
    /\ pc' = next
    /\ UNCHANGED <<step3,
                   prog, step, start, elapsed, result, stats, returned, raised,
                   error, baseline_result, reform_result, metrics>>

\* start = time.time()
StartAt(here, next) ==
    /\ pc = here
    /\ \E t \in Clock : start' = t
    /\ trace' = Log("start")
    /\ pc' = next
    /\ UNCHANGED <<step3,
                   prog, step, inv, enabled, elapsed, result, stats, returned,
                   raised, error, baseline_result, reform_result, metrics>>

\* variant: the operation is entered twice (a warm-up call before the timed one)
InvokeAtTwice(here, next) ==
    /\ pc = here
    /\ trace' = [trace EXCEPT ![step] = @ \o <<"invoke", "return", "invoke">>]
    /\ pc' = next
    /\ UNCHANGED <<step3,
                   prog, step, inv, enabled, start, elapsed, result, stats,
                   returned, raised, error, baseline_result, reform_result,
                   metrics>>

\* the operation is entered
InvokeAt(here, next) ==
    /\ pc = here
    /\ trace' = Log("invoke")
    /\ pc' = next
    /\ UNCHANGED <<step3,
                   prog, step, inv, enabled, start, elapsed, result, stats,
                   returned, raised, error, baseline_result, reform_result,
                   metrics>>

\* the operation returns a value; an enabled profiler has recorded its calls
ReturnAt(here, next, profiled) ==
    /\ pc = here
    /\ \E v \in Values :
          /\ result' = v
          /\ returned' = [returned EXCEPT ![step] = v]
    /\ IF profiled
       THEN \E n \in 0..MaxCalls :
               stats' = [stats EXCEPT ![step] = Samples(n, RunPattern)]
       ELSE UNCHANGED stats
    /\ trace' = Log("return")
    /\ pc' = next
    /\ UNCHANGED <<step3,
                   prog, step, inv, enabled, start, elapsed, raised, error,
                   baseline_result, reform_result, metrics>>

\* variant: the exception is caught and another one raised in its place
RaiseAtWrapped(here) ==
    /\ pc = here
    /\ \E e \in Errors : raised' = e
    /\ error' = "RuntimeError"
    /\ trace' = Log("raise")
    /\ start' = 0
    /\ pc' = "failed"
    /\ UNCHANGED <<step3,
                   prog, step, inv, enabled, elapsed, result, stats, returned,
                   baseline_result, reform_result, metrics>>

\* variant: the exception is swallowed and the invocation goes on with None
RaiseAtSwallowed(here) ==
    /\ pc = here
    /\ \E e \in Errors : raised' = e
    /\ result' = "None"
    /\ trace' = Log("raise")
    /\ pc' = IF here = "ps_in_func" THEN "ps_stop"
             ELSE IF here = "ex_b_in" THEN "ex_b_stop" ELSE "ex_r_stop"
    /\ UNCHANGED <<step3,
                   prog, step, inv, enabled, start, elapsed, stats, returned,
                   error, baseline_result, reform_result, metrics>>

\* the operation raises: nothing catches the exception, the script run ends
RaiseAt(here) ==
    /\ pc = here
    /\ \E e \in Errors :
          /\ raised' = e
          /\ error' = e
    /\ trace' = Log("raise")
    /\ start' = 0
    /\ pc' = "failed"
    /\ UNCHANGED <<step3,
                   prog, step, inv, enabled, elapsed, result, stats, returned,
                   baseline_result, reform_result, metrics>>

\* elapsed = time.time() - start
StopAt(here, next) ==
    /\ pc = here
    /\ \E t \in Clock : elapsed' = t - start
    /\ start' = 0
    /\ trace' = Log("stop")
    /\ pc' = next
    /\ UNCHANGED <<step3,
                   prog, step, inv, enabled, result, stats, returned, raised,
                   error, baseline_result, reform_result, metrics>>

\* pr.disable()
DisableAt(here, next) ==
    /\ pc = here
    /\ enabled' = enabled \ {inv}
    /\ trace' = Log("disable")
    /\ pc' = next
    /\ UNCHANGED <<step3,
                   prog, step, inv, start, elapsed, result, stats, returned,
                   raised, error, baseline_result, reform_result, metrics>>

\* variant: a division by zero yields infinity instead of raising
CompareAtInf(here, next) ==
    /\ pc = here
    /\ metrics' = IF baseline_result.time = 0
                  THEN [computed |-> TRUE,
                        overhead |-> reform_result.time - baseline_result.time,
                        overhead_pct |-> <<1, 0>>, ratio |-> <<1, 0>>]
                  ELSE Derive(baseline_result.time, reform_result.time)
    /\ pc' = next
    /\ UNCHANGED <<step3,
                   prog, step, inv, enabled, start, elapsed, result, stats,
                   returned, raised, error, baseline_result, reform_result,
                   trace>>

\* the comparison of reform time over baseline time; a zero baseline time
\* raises ZeroDivisionError at the first division
CompareAt(here, next) ==
    /\ pc = here
    /\ IF baseline_result.time = 0
       THEN /\ error' = "ZeroDivisionError"
            /\ pc' = "failed"
            /\ UNCHANGED metrics
       ELSE /\ metrics' = Derive(baseline_result.time, reform_result.time)
            /\ pc' = next
            /\ UNCHANGED error
    /\ UNCHANGED <<step3,
                   prog, step, inv, enabled, start, elapsed, result, stats,
                   returned, raised, baseline_result, reform_result, trace>>

----------------------------------------------------------------------------
\* app.py

\* st.button(label) reads True only in the script run that the press of
\* that button started
ButtonReads(label, button) == label = button

\* a press of a button runs the script again from the top with fresh
\* variables, in the same process; the profiling block is entered when
\* "Run Profile" reads pressed, otherwise the script runs to its end
RunScript(button) ==
    /\ pressed' = button
    /\ IF ButtonReads("Run Profile", button)
       THEN /\ step' = "Baseline"
            /\ pc' = "ps_enable"
       ELSE /\ step' = "none"
            /\ pc' = "idle"
    /\ start' = 0
    /\ elapsed' = 0
    /\ result' = "unset"
    /\ stats' = NoStats
    /\ returned' = NoReturn
    /\ raised' = "none"
    /\ error' = "none"
    /\ baseline_result' = NoReport
    /\ reform_result' = NoReport
    /\ metrics' = NoMetrics
    /\ trace' = NoTrace
    /\ baseline_calc' = NoReport
    /\ reform_calc' = NoReport
    /\ UNCHANGED <<prog, inv, enabled>>

\* the user presses "Run Profile"
PressRunProfile ==
    /\ prog = "app"
    /\ pc \in {"idle", "failed", "shown"}
    /\ inv + 2 <= MaxInvocations
    /\ RunScript("Run Profile")

\* the user presses "Profile Variable Calculation", which is on the page
\* once a run has shown its comparison
PressProfileVariable ==
    /\ prog = "app"
    /\ pc = "shown"
    /\ RunScript("Profile Variable Calculation")

Enable == EnableAt("ps_enable", "ps_start")

StartTimer == StartAt("ps_start", "ps_call")

InvokeFunc == InvokeAt("ps_call", "ps_in_func")

FuncReturns == ReturnAt("ps_in_func", "ps_stop", TRUE)

FuncRaises == RaiseAt("ps_in_func")

StopTimer == StopAt("ps_stop", "ps_disable")

Disable == DisableAt("ps_disable", "ps_report")

\* profile_step formats the statistics and returns the report to its caller
BuildReport ==
    /\ pc = "ps_report"
    /\ LET r == Report(step, elapsed, result, ProfileText(stats[step]))
       IN  IF step = "Baseline"
           THEN /\ baseline_result' = r
                /\ pc' = "app_step2"
                /\ UNCHANGED reform_result
           ELSE /\ reform_result' = r
                /\ pc' = "app_compare"
                /\ UNCHANGED baseline_result
    /\ elapsed' = 0
    /\ result' = "unset"
    /\ UNCHANGED <<step3,
                   prog, step, inv, enabled, start, stats, returned, raised,
                   error, metrics, trace>>

\* the baseline time is shown; get_reform(country) is truthy
Step2 ==
    /\ pc = "app_step2"
    /\ step' = "Reform"
    /\ pc' = "ps_enable"
    /\ UNCHANGED <<step3,
                   prog, inv, enabled, start, elapsed, result, stats, returned,
                   raised, error, baseline_result, reform_result, metrics,
                   trace>>

Compare == CompareAt("app_compare", "app_step3")

\* the charts and profiles are shown; the block of the calculations (the two
\* profile_step calls on sim_baseline and sim_reform) is entered when
\* "Profile Variable Calculation" reads pressed in this script run
Step3 ==
    /\ pc = "app_step3"
    /\ pc' = IF ButtonReads("Profile Variable Calculation", pressed)
             THEN "calc_enable" ELSE "shown"
    /\ UNCHANGED <<step3, prog, step, inv, enabled, start, elapsed, result,
                   stats, returned, raised, error, baseline_result,
                   reform_result, metrics, trace>>

----------------------------------------------------------------------------
\* example_profile.py

ExStart ==
    /\ prog = "example"
    /\ pc = "idle"
    /\ step' = "Baseline"
    /\ pc' = "ex_b_start"
    /\ UNCHANGED <<step3,
                   prog, inv, enabled, start, elapsed, result, stats, returned,
                   raised, error, baseline_result, reform_result, metrics,
                   trace>>

ExBaselineStart == StartAt("ex_b_start", "ex_b_call")

ExBaselineInvoke == InvokeAt("ex_b_call", "ex_b_in")

ExBaselineReturns == ReturnAt("ex_b_in", "ex_b_stop", FALSE)

ExBaselineRaises == RaiseAt("ex_b_in")

\* baseline_time = time.time() - t0, with sim_baseline
ExBaselineStop ==
    /\ pc = "ex_b_stop"
    /\ \E t \in Clock :
          baseline_result' = Report("", t - start, result, <<>>)
    /\ start' = 0
    /\ result' = "unset"
    /\ trace' = Log("stop")
    /\ step' = "Reform"
    /\ pc' = "ex_r_enable"
    /\ UNCHANGED <<step3,
                   prog, inv, enabled, elapsed, stats, returned, raised, error,
                   reform_result, metrics>>

ExEnable == EnableAt("ex_r_enable", "ex_r_start")

ExReformStart == StartAt("ex_r_start", "ex_r_call")

ExReformInvoke == InvokeAt("ex_r_call", "ex_r_in")

ExReformReturns == ReturnAt("ex_r_in", "ex_r_stop", TRUE)

ExReformRaises == RaiseAt("ex_r_in")

\* reform_time = time.time() - t0, with sim_reform
ExReformStop ==
    /\ pc = "ex_r_stop"
    /\ \E t \in Clock :
          reform_result' = Report("", t - start, result, <<>>)
    /\ start' = 0
    /\ result' = "unset"
    /\ trace' = Log("stop")
    /\ pc' = "ex_r_disable"
    /\ UNCHANGED <<step3,
                   prog, step, inv, enabled, elapsed, stats, returned, raised,
                   error, baseline_result, metrics>>

ExDisable == DisableAt("ex_r_disable", "ex_compare")

ExCompare == CompareAt("ex_compare", "ex_stats")

\* the top functions of the reform's profiler are printed
ExPrintStats ==
    /\ pc = "ex_stats"
    /\ reform_result' =
          [reform_result EXCEPT !.profile = ProfileText(stats["Reform"])]
    /\ pc' = "ex_done"
    /\ UNCHANGED <<step3,
                   prog, step, inv, enabled, start, elapsed, result, stats,
                   returned, raised, error, baseline_result, metrics, trace>>

----------------------------------------------------------------------------

Init ==
    /\ prog \in {"app", "example"}
    /\ pc = "idle"
    /\ step = "none"
    /\ inv = 0
    /\ enabled = {}
    /\ start = 0
    /\ elapsed = 0
    /\ result = "unset"
    /\ stats = NoStats
    /\ returned = NoReturn
    /\ raised = "none"
    /\ error = "none"
    /\ baseline_result = NoReport
    /\ reform_result = NoReport
    /\ metrics = NoMetrics
    /\ trace = NoTrace
    /\ pressed = "none"
    /\ baseline_calc = NoReport
    /\ reform_calc = NoReport

Next ==
    \/ PressRunProfile
    \/ PressProfileVariable
    \/ Step3
    \/ Enable
    \/ StartTimer
    \/ InvokeFunc
    \/ FuncReturns
    \/ FuncRaises
    \/ StopTimer
    \/ Disable
    \/ BuildReport
    \/ Step2
    \/ Compare
    \/ ExStart
    \/ ExBaselineStart
    \/ ExBaselineInvoke
    \/ ExBaselineReturns
    \/ ExBaselineRaises
    \/ ExBaselineStop
    \/ ExEnable
    \/ ExReformStart
    \/ ExReformInvoke
    \/ ExReformReturns
    \/ ExReformRaises
    \/ ExReformStop
    \/ ExDisable
    \/ ExCompare
    \/ ExPrintStats

Spec == Init /\ [][Next]_vars

----------------------------------------------------------------------------
\* The formatting of a profiler's statistics on its own: the scripts at the
\* point where the statistics are printed, for every recorded profile of up
\* to MaxFuncs functions

FullOrder == <<"enable", "start", "invoke", "return", "stop", "disable">>

InitStats ==
    /\ prog \in {"app", "example"}
    /\ step \in Steps
    /\ prog = "example" => step = "Reform"
    /\ pc = IF prog = "app" THEN "ps_report" ELSE "ex_stats"
    /\ inv = IF prog = "app" /\ step = "Reform" THEN 2 ELSE 1
    /\ enabled = {}
    /\ start = 0
    /\ elapsed = IF prog = "app" THEN 6 ELSE 0
    /\ result = IF prog = "app" THEN "handle" ELSE "unset"
    /\ \E n \in 0..MaxFuncs, p \in Patterns :
          stats = [NoStats EXCEPT ![step] = Samples(n, p)]
    /\ returned = [s \in Steps |->
                     IF s = "Reform" /\ step = "Baseline"
                     THEN "unset" ELSE "handle"]
    /\ raised = "none"
    /\ error = "none"
    /\ baseline_result =
          IF prog = "example" THEN Report("", 2, "handle", <<>>)
          ELSE IF step = "Reform" THEN Report("Baseline", 2, "handle", <<>>)
          ELSE NoReport
    /\ reform_result =
          IF prog = "example" THEN Report("", 6, "handle", <<>>) ELSE NoReport
    /\ metrics = IF prog = "example" THEN Derive(2, 6) ELSE NoMetrics
    /\ trace = [s \in Steps |->
                  IF prog = "example" /\ s = "Baseline"
                  THEN <<"start", "invoke", "return", "stop">>
                  ELSE IF s = "Reform" /\ step = "Baseline" THEN <<>>
                  ELSE FullOrder]
    /\ pressed = IF prog = "app" THEN "Run Profile" ELSE "none"
    /\ baseline_calc = NoReport
    /\ reform_calc = NoReport

NextStats ==
    \/ BuildReport
    \/ ExPrintStats

SpecStats == InitStats /\ [][NextStats]_vars

----------------------------------------------------------------------------
\* Properties

ReportOf(s) == IF s = "Baseline" THEN baseline_result ELSE reform_result

Count(seq, ev) == Cardinality({i \in DOMAIN seq : seq[i] = ev})

\* both times are taken and the comparison has not run yet
ComparePending == pc \in {"app_compare", "ex_r_disable", "ex_compare"}

\* C1: when the operation raises, the profiler that the timed invocation
\* enabled is disabled by the time the exception has left it, and no profiler
\* of an earlier invocation is enabled when the next invocation starts.
C1_ProfilerDisabledOnFailure ==
    /\ (pc = "failed" /\ raised # "none") => inv \notin enabled
    /\ pc \in {"ps_enable", "ex_r_enable"} => enabled = {}

\* C2: with a baseline time of exactly 0 the comparison is guarded: no
\* arithmetic exception is raised and the run does not end in an error (the
\* user is told "baseline too fast to compare" instead).
C2_ZeroBaselineGuarded ==
    (baseline_result.made /\ reform_result.made /\ baseline_result.time = 0)
        => (error = "none" /\ pc # "failed")

\* C3: with a baseline time of exactly 0 the comparison yields no value for
\* the overhead percent or the ratio, whatever the candidate time: it ends
\* in ZeroDivisionError.
C3_ZeroBaselineRaises ==
    /\ (baseline_result.made /\ baseline_result.time = 0) => ~metrics.computed
    /\ (/\ baseline_result.made
        /\ reform_result.made
        /\ baseline_result.time = 0
        /\ ~ComparePending)
          => (error = "ZeroDivisionError" /\ pc = "failed")

C3_Witness ==
    /\ baseline_result.made
    /\ reform_result.made
    /\ baseline_result.time = 0
    /\ reform_result.time = 0
    /\ error = "ZeroDivisionError"

\* C4: when the operation raises, the error that reaches the caller is the
\* one the operation raised, and no report of that invocation exists, nor a
\* local result of it.
C4_FailurePropagates ==
    (pc = "failed" /\ raised # "none") =>
        /\ error = raised
        /\ ~ReportOf(step).made
        /\ result = "unset"
        /\ ~metrics.computed

C4_Witness ==
    /\ prog = "app"
    /\ pc = "failed"
    /\ step = "Reform"
    /\ raised = "UnknownVariableError"
    /\ baseline_result.made

\* C5: a report of profile_step carries the value the operation returned,
\* unchanged, and the label it was called with.
C5_ResultPassthrough ==
    prog = "app" =>
        \A s \in Steps :
            ReportOf(s).made =>
                /\ ReportOf(s).result = returned[s]
                /\ ReportOf(s).name = s

C5_Witness ==
    /\ prog = "app"
    /\ baseline_result.made
    /\ baseline_result.result = "empty"
    /\ reform_result.made
    /\ reform_result.result = "zero"

\* C6: with a positive baseline time b and a candidate time r the metrics are
\* overhead = r - b, overhead percent = (r / b - 1) * 100 and ratio = r / b;
\* b = 2 and r = 6 give 4, 200 and 3; r < b gives a negative overhead and a
\* ratio below 1.
C6_DerivedMetrics ==
    (metrics.computed /\ baseline_result.time > 0) =>
        LET b == baseline_result.time
            r == reform_result.time
            pct == metrics.overhead_pct
            ratio == metrics.ratio
        IN  /\ metrics.overhead = r - b
            /\ pct[2] > 0
            /\ pct[1] * b = (r - b) * 100 * pct[2]
            /\ ratio[2] > 0
            /\ ratio[1] * b = r * ratio[2]
            /\ (b = 2 /\ r = 6) =>
                  /\ metrics.overhead = 4
                  /\ pct = <<200, 1>>
                  /\ ratio = <<3, 1>>
            /\ r < b => (metrics.overhead < 0 /\ ratio[1] < ratio[2])

C6_Witness ==
    /\ metrics.computed
    /\ baseline_result.time = 2
    /\ reform_result.time = 6
    /\ metrics.overhead_pct = <<200, 1>>

\* C7: the elapsed time of every report is at least 0, whatever the clock
\* reads.
C7_ElapsedNonNegative ==
    \A s \in Steps : ReportOf(s).made => ReportOf(s).time >= 0

\* C8: both times of a comparison were taken in the order profiler enabled,
\* timer started, operation invoked, operation returned, timer stopped,
\* profiler disabled.
C8_BothMeasurementsProfiled ==
    metrics.computed =>
        \A s \in Steps : trace[s] = FullOrder

\* the entries of text are the top entries of the statistics ct
TopEntries(text, ct) ==
    /\ Len(text) <= 20
    /\ Len(text) = IF Len(ct) < 20 THEN Len(ct) ELSE 20
    /\ \A i \in DOMAIN text : text[i] \in DOMAIN ct
    /\ \A i, j \in DOMAIN text : i < j =>
          (text[i] # text[j] /\ ct[text[i]] >= ct[text[j]])
    /\ \A f \in DOMAIN ct :
          (\A i \in DOMAIN text : text[i] # f) =>
              \A i \in DOMAIN text : ct[f] <= ct[text[i]]

\* C9: the profile text lists at most 20 functions, those of greatest
\* cumulative time among the recorded ones, in descending order of
\* cumulative time.
C9_TopTwentyDescending ==
    /\ prog = "app" =>
          \A s \in Steps :
              ReportOf(s).made => TopEntries(ReportOf(s).profile, stats[s])
    /\ pc = "ex_done" => TopEntries(reform_result.profile, stats["Reform"])

C9_Witness ==
    \E s \in Steps :
        /\ ReportOf(s).made
        /\ Len(stats[s]) = 25
        /\ Cardinality({stats[s][i] : i \in DOMAIN stats[s]}) = 25
        /\ Len(ReportOf(s).profile) = 20
        /\ ReportOf(s).profile[1] # 1

\* C10: an ended timed invocation has entered its operation exactly once,
\* and the reform's operation is entered only after the baseline's has
\* returned and its report exists.
C10_InvokedOnce ==
    /\ \A s \in Steps :
          ReportOf(s).made =>
              /\ Count(trace[s], "invoke") = 1
              /\ Count(trace[s], "return") = 1
              /\ Count(trace[s], "raise") = 0
    /\ (pc = "failed" /\ raised # "none") =>
          /\ Count(trace[step], "invoke") = 1
          /\ Count(trace[step], "return") = 0
    /\ Count(trace["Reform"], "invoke") > 0 =>
          /\ baseline_result.made
          /\ Count(trace["Baseline"], "return") = 1

C10_Witness ==
    /\ prog = "app"
    /\ pc = "shown"
    /\ reform_result.made
    /\ Count(trace["Reform"], "invoke") = 1
    /\ Count(trace["Baseline"], "invoke") = 1

\* C11: metrics are computed only from two reports whose operations both
\* returned in this script run; when an operation has raised, no metric is
\* computed, the operation was entered once (no retry) and its error is the
\* one that ended the run.
C11_ComparisonOnlyFromCompletedReports ==
    /\ metrics.computed =>
          /\ raised = "none"
          /\ \A s \in Steps :
                /\ ReportOf(s).made
                /\ returned[s] # "unset"
                /\ Count(trace[s], "raise") = 0
    /\ raised # "none" =>
          /\ ~metrics.computed
          /\ pc = "failed"
          /\ error = raised
          /\ Count(trace[step], "invoke") = 1
          /\ Count(trace[step], "raise") = 1

C11_Witness ==
    /\ prog = "app"
    /\ inv = 3
    /\ pc = "failed"
    /\ step = "Reform"
    /\ raised = "ConstructionError"
    /\ baseline_result.made
    /\ ~metrics.computed

\* C12: once a run has produced both reports and "Profile Variable
\* Calculation" is pressed, the script run that the press starts times
\* calculate on both handles: when it has ended, both calculation reports
\* exist.
C12_CalculationRuns ==
    (pressed = "Profile Variable Calculation" /\ pc = "idle") =>
        (baseline_calc.made /\ reform_calc.made)

====
